---- MODULE Spec2Model ----
(***************************************************************************)
(* NewsSnifferLast: the polling / dedup / forward pipeline.                *)
(*   src/telegram_client.py  TelegramNewsClient (Channel Processor and     *)
(*                           Fleet Coordinator)                            *)
(*   src/database.py         DatabaseManager (Dedup Store)                 *)
(*   src/utils.py            NewsSnifferUtils (operator maintenance)       *)
(*   src/scheduler.py        NewsScheduler (Interval Scheduler)            *)
(*   src/main.py             run_daemon, run_once (process entry points)   *)
(* Time is an abstract integer clock; only the order of instants matters   *)
(* to the code (date > start_time, processed_date < now - age).            *)
(***************************************************************************)
EXTENDS Integers, Sequences, FiniteSets, TLC

\* ------------------------------------------------------------------ bounds
MaxTime == 2          \* interval sleeps, the ticks of the clock 0..MaxTime
MaxPosts == 2         \* messages ever posted to the source channels together
Limit == 2            \* batch size of one retrieval (limit=50 in the source)
MaxLen == 3           \* longest batch drawn for the filter specification
MaxCalls == 3         \* update_statistics calls in the statistics specification
MaxDay == 1           \* calendar dates 0..MaxDay in the statistics specification
MaxBurst == 3         \* messages ever posted in the burst specification
MaxExtra == 1         \* scheduling loops alive beside the first one

\* --------------------------------------------------------------- constants
SOURCE_CHANNELS == <<"@a", "@b">>
Channels == {SOURCE_CHANNELS[i] : i \in 1..Len(SOURCE_CHANNELS)}
NoTime == -1                          \* start_time = None / message.date = None
NoRow == [absent |-> TRUE]            \* no channel_settings row for a channel
TextHi == <<"h", "i">>                \* ordinary text
TextCmd == <<"/", "c">>               \* text with the command prefix
TextNone == <<>>                      \* no text (None or ''): media message
Texts == {TextHi, TextCmd, TextNone}
FloodSeconds == {5, 30}               \* FloodWaitError.seconds
PurgeAges == {0, 1}                   \* cleanup_old_posts(days)
MediaText == <<"[", "M", "]">>        \* "[Медиа сообщение]"

VARIABLES
  now,               \* wall clock
  posts,             \* transport: per channel, the messages ever posted; id = index
  start_time,        \* TelegramNewsClient.start_time (NoTime = None)
  processed_posts,   \* table processed_posts: a set of rows
  channel_settings,  \* table channel_settings: channel -> row or NoRow
  stats,             \* TelegramNewsClient.stats
  pc,                \* position of process_all_channels
  ci,                \* index into SOURCE_CHANNELS of the channel being processed
  messages,          \* candidates of the channel being processed
  mi,                \* index into messages of the next candidate
  results,           \* the results dict of process_all_channels
  pass,              \* observation of the current pass, per channel
  fwdCount,          \* observation: forwards delivered per (channel, id), saturating at 2
  lost,              \* observation: keys whose record was not written, was not read or was removed
  last,              \* observation: the last step taken
  boundary, batch, candidates,   \* inputs and result of the filter specification
  statistics,        \* table statistics: a set of rows
  today,             \* CURRENT_DATE
  supplied,          \* observation: per date, the sums of the counters written
  is_running,        \* NewsScheduler.is_running
  client,            \* TelegramNewsClient.client: "none", "connected", "disconnected"
  mode,              \* the entry point of the process: "daemon" or "once"
  others             \* further start_daemon loops: how many sleep, have woken, run a pass

vars == <<now, posts, start_time, processed_posts, channel_settings, stats, pc, ci,
          messages, mi, results, pass, fwdCount, lost, last, boundary, batch, candidates,
          statistics, today, supplied, is_running, client, mode, others>>

pipeVars == <<now, posts, start_time, processed_posts, channel_settings, stats, pc, ci,
              messages, mi, results, pass, fwdCount, lost, last>>
filterVars == <<boundary, batch, candidates>>
statVars == <<statistics, today, supplied>>
schedVars == <<is_running, client, mode>>

Ids == 1..(IF MaxBurst > MaxPosts THEN MaxBurst ELSE MaxPosts)
Keys == Channels \X Ids

\* ----------------------------------------------------------------- helpers
Max(S) == CHOOSE x \in S : \A y \in S : y <= x
Min2(a, b) == IF a <= b THEN a ELSE b

\* str.startswith('/')
startswith(text, ch) == Len(text) > 0 /\ text[1] = ch

RECURSIVE SumOver(_, _)
SumOver(f, S) == IF S = {} THEN 0
                 ELSE LET x == CHOOSE y \in S : TRUE IN f[x] + SumOver(f, S \ {x})

\* ----------------------------------------------------- Transport Gateway
\* client.iter_messages(channel, limit): the newest `limit` messages that still
\* exist, newest first.
RECURSIVE liveDown(_, _)
liveDown(ps, i) ==
  IF i = 0 THEN <<>>
  ELSE IF ps[i].live
       THEN <<[id |-> i, date |-> ps[i].date, text |-> ps[i].text]>> \o liveDown(ps, i - 1)
       ELSE liveDown(ps, i - 1)

iter_messages(ps, limit) ==
  LET all == liveDown(ps, Len(ps))
  IN  SubSeq(all, 1, Min2(limit, Len(all)))

\* ------------------------------------------------------------ Dedup Store
\* A processed_posts row; UNIQUE(channel_username, message_id).
SameKey(r, c, m) == r.channel_username = c /\ r.message_id = m

\* is_post_processed that finds nothing
is_post_processed_none(rows, c, m, dbok) == FALSE

\* is_post_processed that matches the message id alone
is_post_processed_anychannel(rows, c, m, dbok) ==
  IF dbok THEN \E r \in rows : r.message_id = m ELSE FALSE

\* is_post_processed that answers True when the query fails
is_post_processed_failclosed(rows, c, m, dbok) ==
  IF dbok THEN \E r \in rows : SameKey(r, c, m) ELSE TRUE

\* DatabaseManager.is_post_processed; dbok = FALSE is an sqlite3.Error
is_post_processed(rows, c, m, dbok) ==
  IF dbok THEN \E r \in rows : SameKey(r, c, m) ELSE FALSE

\* add_processed_post as a plain insert into a table without the unique key
add_processed_post_append(rows, c, m, text, post_date, summary, is_published, t, dbok) ==
  IF dbok
  THEN rows \cup
       {[channel_username |-> c, message_id |-> m, message_text |-> text,
         post_date |-> post_date, processed_date |-> t,
         is_published |-> is_published, summary |-> summary]}
  ELSE rows

\* DatabaseManager.add_processed_post: INSERT OR REPLACE, processed_date takes
\* its default CURRENT_TIMESTAMP (t)
\* add_processed_post whose failing write leaves a row behind
add_processed_post_halfwritten(rows, c, m, text, post_date, summary, is_published, t, dbok) ==
  {r \in rows : ~SameKey(r, c, m)} \cup
  {[channel_username |-> c, message_id |-> m, message_text |-> text,
    post_date |-> post_date, processed_date |-> t,
    is_published |-> is_published /\ dbok, summary |-> summary]}

add_processed_post(rows, c, m, text, post_date, summary, is_published, t, dbok) ==
  IF dbok
  THEN {r \in rows : ~SameKey(r, c, m)} \cup
       {[channel_username |-> c, message_id |-> m, message_text |-> text,
         post_date |-> post_date, processed_date |-> t,
         is_published |-> is_published, summary |-> summary]}
  ELSE rows

\* DatabaseManager.get_last_message_id
get_last_message_id(cs, c, dbok) ==
  IF dbok /\ cs[c] # NoRow THEN cs[c].last_message_id ELSE 0

\* DatabaseManager.update_last_message_id: INSERT OR REPLACE of
\* (channel_username, last_message_id); the other columns take their defaults
update_last_message_id(cs, c, id, t, dbok) ==
  IF dbok
  THEN [cs EXCEPT ![c] = [last_message_id |-> id, is_active |-> TRUE, added_date |-> t]]
  ELSE cs

\* add_channel as INSERT OR REPLACE
add_channel_replace(cs, c, t, dbok) ==
  IF dbok
  THEN [cs EXCEPT ![c] = [last_message_id |-> 0, is_active |-> TRUE, added_date |-> t]]
  ELSE cs

\* DatabaseManager.add_channel: INSERT OR IGNORE
add_channel(cs, c, t, dbok) ==
  IF dbok /\ cs[c] = NoRow
  THEN [cs EXCEPT ![c] = [last_message_id |-> 0, is_active |-> TRUE, added_date |-> t]]
  ELSE cs

\* cleanup_old_posts that also removes a row exactly `days` old
cleanup_old_posts_inclusive(rows, days, t) == {r \in rows : ~(r.processed_date <= t - days)}

\* NewsSnifferUtils.cleanup_old_posts: the rows that stay
cleanup_old_posts(rows, days, t) == {r \in rows : ~(r.processed_date < t - days)}

\* Table statistics: id INTEGER PRIMARY KEY AUTOINCREMENT is its only key.
Days == 0..MaxDay
ZeroCounters == <<0, 0, 0>>
OfDate(table, d) == {r \in table : r.date = d}

\* (SELECT col FROM statistics WHERE date = CURRENT_DATE) as a scalar: the
\* first row of the scan, which runs in rowid order; NULL when there is none
FirstOfDate(table, d) ==
  CHOOSE r \in OfDate(table, d) : \A q \in OfDate(table, d) : r.id <= q.id
Coalesce(table, d, col) == IF OfDate(table, d) = {} THEN 0 ELSE FirstOfDate(table, d)[col]

\* DatabaseManager.update_statistics: INSERT OR REPLACE of a row without id,
\* so the row gets the next rowid and replaces nothing
update_statistics(table, posts_processed, posts_published, posts_filtered, d, dbok) ==
  IF dbok
  THEN table \cup
       {[id |-> Cardinality(table) + 1, date |-> d,
         posts_processed |-> Coalesce(table, d, "posts_processed") + posts_processed,
         posts_published |-> Coalesce(table, d, "posts_published") + posts_published,
         posts_filtered |-> Coalesce(table, d, "posts_filtered") + posts_filtered]}
  ELSE table

\* the sums of what was written for a date, kept beside the table
Supply(sup, p, q, f, d, dbok) ==
  IF dbok THEN [sup EXCEPT ![d] = <<@[1] + p, @[2] + q, @[3] + f>>] ELSE sup

\* ------------------------------------------------------ Channel Processor
\* walk with the boundary taken inclusively (date >= start_time)
RECURSIVE walk_ge(_, _, _)
walk_ge(b, i, st) ==
  IF i > Len(b) THEN <<>>
  ELSE LET message == b[i] IN
       IF message.date # NoTime /\ message.date >= st
       THEN (IF Len(message.text) > 0 /\ ~startswith(message.text, "/")
             THEN <<message>> ELSE <<>>) \o walk_ge(b, i + 1, st)
       ELSE IF message.date # NoTime /\ message.date < st
            THEN <<>>
            ELSE walk_ge(b, i + 1, st)

\* walk that goes on past a message at or before the boundary (no break)
RECURSIVE walk_nobreak(_, _, _)
walk_nobreak(b, i, st) ==
  IF i > Len(b) THEN <<>>
  ELSE LET message == b[i] IN
       IF message.date # NoTime /\ message.date > st
       THEN (IF Len(message.text) > 0 /\ ~startswith(message.text, "/")
             THEN <<message>> ELSE <<>>) \o walk_nobreak(b, i + 1, st)
       ELSE walk_nobreak(b, i + 1, st)

\* walk that does not look at the command prefix
RECURSIVE walk_nocmd(_, _, _)
walk_nocmd(b, i, st) ==
  IF i > Len(b) THEN <<>>
  ELSE LET message == b[i] IN
       IF message.date # NoTime /\ message.date > st
       THEN (IF Len(message.text) > 0 THEN <<message>> ELSE <<>>)
            \o walk_nocmd(b, i + 1, st)
       ELSE IF message.date # NoTime /\ message.date <= st
            THEN <<>>
            ELSE walk_nocmd(b, i + 1, st)

\* TelegramNewsClient.get_channel_messages, the walk over the delivered batch
RECURSIVE walk(_, _, _)
walk(b, i, st) ==
  IF i > Len(b) THEN <<>>
  ELSE LET message == b[i] IN
       IF message.date # NoTime /\ message.date > st
       THEN (IF Len(message.text) > 0 /\ ~startswith(message.text, "/")
             THEN <<message>> ELSE <<>>) \o walk(b, i + 1, st)
       ELSE IF message.date # NoTime /\ message.date <= st
            THEN <<>>
            ELSE walk(b, i + 1, st)

\* outcome.kind: "ok", "flood" (FloodWaitError) or "error" (any other exception)
Outcomes == {[kind |-> "ok", seconds |-> 0], [kind |-> "error", seconds |-> 0]}
            \cup {[kind |-> "flood", seconds |-> s] : s \in FloodSeconds}

\* get_channel_messages that returns what it collected when the rate limit hits
get_channel_messages_partial(b, st, outcome) ==
  IF st = NoTime THEN <<>>
  ELSE IF outcome.kind \in {"ok", "flood"} THEN walk(b, 1, st)
  ELSE <<>>

\* get_channel_messages without `if self.start_time is None`
get_channel_messages_noguard(b, st, outcome) ==
  IF outcome.kind = "ok" THEN walk(b, 1, st) ELSE <<>>

get_channel_messages(b, st, outcome) ==
  IF st = NoTime THEN <<>>
  ELSE IF outcome.kind = "ok" THEN walk(b, 1, st)
  ELSE <<>>

\* whether get_channel_messages reaches client.iter_messages
fetches(st) == st # NoTime

\* seconds slept inside get_channel_messages
get_channel_messages_sleep(st, outcome) ==
  IF st # NoTime /\ outcome.kind = "flood" THEN outcome.seconds ELSE 0

\* the lowest id of the batch in place of max(msg.id for msg in messages)
MaxId_lowest(msgs) ==
  CHOOSE x \in {msgs[i].id : i \in 1..Len(msgs)} :
    \A y \in {msgs[i].id : i \in 1..Len(msgs)} : x <= y

MaxId(msgs) == Max({msgs[i].id : i \in 1..Len(msgs)})

ZeroStats == [posts_processed |-> 0, posts_forwarded |-> 0]
ZeroResults == [processed |-> 0, forwarded |-> 0]
ZeroOthers == [idle |-> 0, woke |-> 0, passing |-> 0]
OthersAlive(o) == o.idle + o.woke + o.passing
ZeroPass == [fwd |-> [c \in Channels |-> 0], cand |-> [c \in Channels |-> 0],
             failed |-> {}, visited |-> <<>>, limited |-> {}]

\* ------------------------------------------------------------------- Init
InitPipe ==
  /\ now = 0
  /\ posts = [c \in Channels |-> <<>>]
  /\ start_time = NoTime
  /\ processed_posts = {}
  /\ channel_settings = [c \in Channels |-> NoRow]
  /\ stats = ZeroStats
  /\ pc = "new"
  /\ ci = 1
  /\ messages = <<>>
  /\ mi = 1
  /\ results = ZeroResults
  /\ pass = ZeroPass
  /\ fwdCount = [k \in Keys |-> 0]
  /\ lost = {}
  /\ last = [op |-> "init"]
  /\ statistics = {}
  /\ today = 0
  /\ supplied = [d \in Days |-> ZeroCounters]
  /\ is_running = FALSE
  /\ client = "none"
  /\ others = ZeroOthers

Init ==
  /\ InitPipe
  /\ mode = "daemon"
  /\ boundary = 0 /\ batch = <<>> /\ candidates = <<>>

\* ------------------------------------------------------------ environment
\* process_all_channels reads a channel's history in one step (GetMessages) and
\* the store one key at a time, so a change the environment makes while a pass
\* runs is seen by the pass as a change made before it or after it: the
\* environment moves between passes.
Quiet == pc \in {"new", "idle", "woke"}
Env == [op |-> "env"]

\* A message is posted to a source channel; ids grow with time.
TotalPosts == SumOver([c \in Channels |-> Len(posts[c])], Channels)

PostUpTo(c, text, most) ==
  /\ Quiet
  /\ TotalPosts < most
  /\ posts' = [posts EXCEPT ![c] = Append(@, [date |-> now, text |-> text, live |-> TRUE])]
  /\ last' = Env
  /\ UNCHANGED <<now, start_time, processed_posts, channel_settings, stats, pc, ci,
                 messages, mi, results, pass, fwdCount, lost, filterVars, others, statVars, schedVars>>

Post(c, text) == PostUpTo(c, text, MaxPosts)

\* A message is deleted from a source channel by its owner.
Delete(c, i) ==
  /\ Quiet
  /\ i \in 1..Len(posts[c])
  /\ posts[c][i].live
  /\ posts' = [posts EXCEPT ![c][i].live = FALSE]
  /\ last' = Env
  /\ UNCHANGED <<now, start_time, processed_posts, channel_settings, stats, pc, ci,
                 messages, mi, results, pass, fwdCount, lost, filterVars, others, statVars, schedVars>>

\* The process ends and a new one is constructed (TelegramNewsClient.__init__);
\* the database file and the channels stay.
Restart ==
  /\ pc \in {"idle", "woke", "exited"}
  /\ is_running' = FALSE
  /\ client' = "none"
  /\ start_time' = NoTime
  /\ stats' = ZeroStats
  /\ pc' = "new"
  /\ ci' = 1 /\ mi' = 1 /\ messages' = <<>>
  /\ results' = ZeroResults
  /\ pass' = ZeroPass
  /\ last' = Env
  /\ others' = ZeroOthers
  /\ UNCHANGED <<now, posts, processed_posts, channel_settings, fwdCount, lost, mode,
                 filterVars, statVars>>

\* NewsSnifferUtils.cleanup_old_posts(days), reporting the number removed
Purge(days) ==
  /\ Quiet
  /\ processed_posts' = cleanup_old_posts(processed_posts, days, now)
  /\ processed_posts' # processed_posts
  /\ lost' = lost \cup {<<r.channel_username, r.message_id>> :
                          r \in processed_posts \ processed_posts'}
  /\ last' = [op |-> "purge", deleted_count |-> Cardinality(processed_posts \ processed_posts')]
  /\ UNCHANGED <<now, posts, start_time, channel_settings, stats, pc, ci,
                 messages, mi, results, pass, fwdCount, filterVars, others, statVars, schedVars>>

\* NewsSnifferUtils.reset_channel
reset_channel(c) ==
  /\ Quiet
  /\ processed_posts' = {r \in processed_posts : r.channel_username # c}
  /\ channel_settings' = IF channel_settings[c] = NoRow THEN channel_settings
                         ELSE [channel_settings EXCEPT ![c].last_message_id = 0]
  /\ <<processed_posts', channel_settings'>> # <<processed_posts, channel_settings>>
  /\ lost' = lost \cup {<<r.channel_username, r.message_id>> :
                          r \in processed_posts \ processed_posts'}
  /\ last' = [op |-> "reset_channel", c |-> c]
  /\ UNCHANGED <<now, posts, start_time, stats, pc, ci,
                 messages, mi, results, pass, fwdCount, filterVars, others, statVars, schedVars>>

\* ------------------------------------------------------------- the process
\* TelegramNewsClient.initialize; authorized = FALSE covers a failed start()
\* and an unauthorized user. The database is reachable while the channels are
\* registered.
\* `if self.start_time is None: self.start_time = now`, taking every call as
\* the first one
set_start_time_always(st, t) == t

set_start_time(st, t) == IF st = NoTime THEN t ELSE st

RECURSIVE add_channels(_, _, _)
add_channels(cs, i, t) ==
  IF i > Len(SOURCE_CHANNELS) THEN cs
  ELSE add_channels(add_channel(cs, SOURCE_CHANNELS[i], t, TRUE), i + 1, t)

\* the caller of initialize that goes on after False
after_initialize_goes_on(ret) == "ready"

\* run_daemon.start_scheduler and run_once after NewsScheduler.initialize: on
\* False the process ends (sys.exit(1), return False)
after_initialize(ret) == IF ret THEN "ready" ELSE "exited"

\* NewsScheduler.initialize as run_daemon and run_once call it
initialize(authorized) ==
  /\ pc = "new"
  /\ IF authorized
     THEN /\ start_time' = set_start_time(start_time, now)
          /\ channel_settings' = add_channels(channel_settings, 1, now)
          /\ client' = "connected"
          /\ pc' = after_initialize(TRUE)
     ELSE /\ pc' = after_initialize(FALSE)
          /\ client' = "disconnected"
          /\ UNCHANGED <<start_time, channel_settings>>
  /\ last' = [op |-> "initialize", ret |-> authorized]
  /\ UNCHANGED <<now, posts, processed_posts, stats, ci, messages, mi, results, pass,
                 fwdCount, lost, is_running, mode, filterVars, others, statVars>>

\* NewsScheduler.start: `if self.is_running: return`, without the test
start_enters_always(running) == TRUE

\* whether start() goes on into start_daemon
start_enters(running) == ~running

\* NewsScheduler.start and the head of start_daemon. run_daemon calls it once
\* after initialize; a further call is made by another task while the first
\* loop is suspended in its sleep or inside a pass, and when it finds the flag
\* cleared it begins a further loop beside the first.
start ==
  /\ mode = "daemon"
  /\ pc \in {"ready", "idle", "channel", "forward"} \/ is_running
  /\ IF start_enters(is_running)
     THEN /\ is_running' = TRUE
          /\ IF pc = "ready"
             THEN pc' = "idle" /\ UNCHANGED others
             ELSE /\ OthersAlive(others) < MaxExtra
                  /\ others' = [others EXCEPT !.idle = @ + 1]
                  /\ UNCHANGED pc
     ELSE UNCHANGED <<is_running, pc, others>>
  /\ last' = [op |-> "start", was |-> is_running]
  /\ UNCHANGED <<now, posts, start_time, processed_posts, channel_settings, stats, ci,
                 messages, mi, results, pass, fwdCount, lost, client, mode,
                 filterVars, statVars>>

\* NewsScheduler.start_daemon, the interval sleep that precedes every pass;
\* the clock counts these sleeps.
IntervalSleep ==
  /\ pc = "idle"
  /\ now < MaxTime
  /\ now' = now + 1
  /\ pc' = "woke"
  /\ last' = [op |-> "sleep"]
  /\ UNCHANGED <<posts, start_time, processed_posts, channel_settings, stats, ci,
                 messages, mi, results, pass, fwdCount, lost, filterVars, others, statVars, schedVars>>

\* start_daemon, `if self.is_running:` after the sleep, with the flag ignored
after_sleep_ignored(running) == TRUE

\* whether the pass is run after the sleep
after_sleep(running) == running

\* start_daemon with `while True`: the loop sleeps again whatever the flag
after_collection_goes_on(m, running) == IF m = "once" THEN "exited" ELSE "idle"

\* start_daemon leaving its loop when the first collection has returned
after_collection_leaves(m, running) == "exited"

\* where the process stands when run_news_collection has returned: run_once
\* closes the client and returns; start_daemon goes to `while self.is_running`,
\* sleeps again or returns, and with it the process
after_collection(m, running) ==
  IF m = "once" THEN "exited" ELSE IF running THEN "idle" ELSE "exited"
after_collection_client(m, cl) == IF m = "once" THEN "disconnected" ELSE cl

\* whether an error inside run_news_collection reaches start_daemon: test_connection
\* returning False is a plain return, and `except Exception` logs and returns
collection_raises(err) == FALSE

\* start_daemon, `except Exception`: the seconds of cool-down before the loop
\* turns to its next sleep
cool_down(raised) == IF raised THEN 60 ELSE 0

\* NewsScheduler.run_news_collection up to the call of process_all_channels:
\* connected = FALSE is test_connection returning False
PassStart(connected) ==
  /\ \/ pc = "woke" /\ mode = "daemon" /\ after_sleep(is_running)
     \/ pc = "ready" /\ mode = "once"
  /\ connected => client = "connected"
  /\ IF connected
     THEN /\ results' = ZeroResults
          /\ ci' = 1
          /\ pc' = "channel"
          /\ pass' = ZeroPass
          /\ last' = [op |-> "pass_start"]
          /\ UNCHANGED client
     ELSE /\ pc' = after_collection(mode, is_running)
          /\ client' = after_collection_client(mode, client)
          /\ last' = [op |-> "no_connection",
                      cooldown |-> cool_down(collection_raises(TRUE))]
          /\ UNCHANGED <<results, ci, pass>>
  /\ UNCHANGED <<now, posts, start_time, processed_posts, channel_settings, stats,
                 messages, mi, fwdCount, lost, is_running, mode, filterVars, others, statVars>>

\* start_daemon: the flag is found cleared after the sleep, the pass is not
\* run, `while self.is_running` ends the loop and the process returns
SkipPass ==
  /\ pc = "woke" /\ mode = "daemon"
  /\ ~after_sleep(is_running)
  /\ pc' = after_collection(mode, is_running)
  /\ last' = [op |-> "skip_pass"]
  /\ UNCHANGED <<now, posts, start_time, processed_posts, channel_settings, stats, ci,
                 messages, mi, results, pass, fwdCount, lost, filterVars, others, statVars,
                 schedVars>>

\* forward_message that records the message although the forward failed
forward_message_records_failure(rows, st, c, message, t, sent, dbok) ==
  [ret |-> sent,
   rows |-> add_processed_post(rows, c, message.id,
                               IF Len(message.text) > 0 THEN message.text ELSE MediaText,
                               message.date, "forwarded", TRUE, t, dbok),
   stats |-> IF sent THEN [posts_processed |-> st.posts_processed + 1,
                           posts_forwarded |-> st.posts_forwarded + 1]
             ELSE st]

\* forward_message that records the message with is_published left at its default
forward_message_unpublished(rows, st, c, message, t, sent, dbok) ==
  IF sent
  THEN [ret |-> TRUE,
        rows |-> add_processed_post(rows, c, message.id,
                                    IF Len(message.text) > 0 THEN message.text ELSE MediaText,
                                    message.date, "forwarded", FALSE, t, dbok),
        stats |-> [posts_processed |-> st.posts_processed + 1,
                   posts_forwarded |-> st.posts_forwarded + 1]]
  ELSE [ret |-> FALSE, rows |-> rows, stats |-> st]

\* TelegramNewsClient.forward_message: sent = FALSE is an exception raised by
\* client.forward_messages; add_processed_post swallows its own sqlite3.Error.
forward_message(rows, st, c, message, t, sent, dbok) ==
  IF sent
  THEN [ret |-> TRUE,
        rows |-> add_processed_post(rows, c, message.id,
                                    IF Len(message.text) > 0 THEN message.text ELSE MediaText,
                                    message.date, "forwarded", TRUE, t, dbok),
        stats |-> [posts_processed |-> st.posts_processed + 1,
                   posts_forwarded |-> st.posts_forwarded + 1]]
  ELSE [ret |-> FALSE, rows |-> rows, stats |-> st]

\* process_all_channels, one turn of the channel loop up to the forwarding
\* loop: get_channel_messages, `if not messages: continue`, the watermark.
\* The index of the channel the loop turns to when the channel gave nothing:
\* the loop is left (break)
AfterEmpty_break(i) == Len(SOURCE_CHANNELS) + 1

\* the next channel (continue)
AfterEmpty(i) == i + 1

\* seconds slept between a channel that gave n candidates and the next one:
\* `continue` leaves the turn before asyncio.sleep(2)
inter_channel_delay(n) == IF n = 0 THEN 0 ELSE 2

GetMessages(outcome, dbok) ==
  /\ pc = "channel"
  /\ ci <= Len(SOURCE_CHANNELS)
  /\ (fetches(start_time) /\ client # "connected") => outcome.kind = "error"
  /\ LET c == SOURCE_CHANNELS[ci]
         msgs == get_channel_messages(iter_messages(posts[c], Limit), start_time, outcome)
         slept == get_channel_messages_sleep(start_time, outcome)
         failed == start_time # NoTime /\ outcome.kind # "ok"
     IN  /\ IF msgs = <<>>
            THEN /\ ci' = AfterEmpty(ci)
                 /\ UNCHANGED <<pc, messages, mi, channel_settings>>
            ELSE /\ channel_settings' =
                      update_last_message_id(channel_settings, c, MaxId(msgs), now, dbok)
                 /\ messages' = msgs
                 /\ mi' = 1
                 /\ pc' = "forward"
                 /\ UNCHANGED ci
         /\ pass' = [pass EXCEPT !.visited = Append(@, c),
                                 !.cand[c] = Len(msgs),
                                 !.failed = IF failed THEN @ \cup {c} ELSE @]
         /\ last' = [op |-> "get_channel_messages", c |-> c, kind |-> outcome.kind,
                     failed |-> failed, seconds |-> outcome.seconds, slept |-> slept,
                     fetched |-> fetches(start_time),
                     wrote |-> msgs # <<>> /\ dbok,
                     delay |-> IF msgs = <<>> THEN inter_channel_delay(0) ELSE 0,
                     n |-> Len(msgs), prev |-> channel_settings[c],
                     wm |-> IF msgs = <<>> THEN 0 ELSE MaxId(msgs)]
  /\ UNCHANGED <<now, posts, start_time, processed_posts, stats, results,
                 fwdCount, lost, filterVars, others, statVars, schedVars>>

\* seconds forward_message sleeps when client.forward_messages raises:
\* `except Exception` takes FloodWaitError with every other error, logs it and
\* returns False
forward_message_sleep(fwd) == 0

\* process_all_channels, one turn of the forwarding loop; fwd is what
\* client.forward_messages does: "ok", "flood" (FloodWaitError with its
\* seconds) or "error"
ForwardStepOn(readok, fwd, writeok) ==
  /\ pc = "forward"
  /\ mi <= Len(messages)
  /\ fwd.kind = "ok" => client = "connected"
  /\ LET c == SOURCE_CHANNELS[ci]
         sent == fwd.kind = "ok"
         message == messages[mi]
         k == <<c, message.id>>
         had == \E r \in processed_posts : SameKey(r, c, message.id)
         found == is_post_processed(processed_posts, c, message.id, readok)
         fm == forward_message(processed_posts, stats, c, message, now, sent, writeok)
     IN  /\ IF found
            THEN /\ UNCHANGED <<processed_posts, stats, results, fwdCount, pass>>
                 /\ lost' = lost
                 /\ last' = [op |-> "candidate", c |-> c, id |-> message.id,
                             had |-> had, found |-> TRUE, readok |-> readok,
                             attempted |-> FALSE, sent |-> FALSE, ret |-> FALSE,
                             wrote |-> FALSE, slept |-> 0,
                             kind |-> "skipped", seconds |-> 0,
                             after_flood |-> c \in pass.limited]
            ELSE /\ processed_posts' = fm.rows
                 /\ stats' = fm.stats
                 /\ results' = IF fm.ret
                               THEN [results EXCEPT !.forwarded = @ + 1] ELSE results
                 /\ fwdCount' = IF sent THEN [fwdCount EXCEPT ![k] = Min2(@ + 1, 2)]
                                ELSE fwdCount
                 /\ pass' = IF sent THEN [pass EXCEPT !.fwd[c] = @ + 1]
                            ELSE IF fwd.kind = "flood"
                                 THEN [pass EXCEPT !.limited = @ \cup {c}]
                                 ELSE pass
                 /\ lost' = IF (had /\ ~readok) \/ (sent /\ ~writeok)
                            THEN lost \cup {k} ELSE lost
                 /\ last' = [op |-> "candidate", c |-> c, id |-> message.id,
                             had |-> had, found |-> FALSE, readok |-> readok,
                             attempted |-> TRUE, sent |-> sent, ret |-> fm.ret,
                             wrote |-> sent /\ writeok,
                             slept |-> IF fm.ret THEN 1 ELSE forward_message_sleep(fwd),
                             kind |-> fwd.kind, seconds |-> fwd.seconds,
                             after_flood |-> c \in pass.limited]
         /\ mi' = mi + 1
  /\ UNCHANGED <<now, posts, start_time, channel_settings, pc, ci, messages, filterVars, others, statVars, schedVars>>

\* the forwarding turn with a forward that succeeds (sent) or raises an error
ForwardStep(readok, sent, writeok) ==
  ForwardStepOn(readok, [kind |-> IF sent THEN "ok" ELSE "error", seconds |-> 0], writeok)

\* process_all_channels, the end of one turn of the channel loop
ChannelDone ==
  /\ pc = "forward"
  /\ mi > Len(messages)
  /\ results' = [results EXCEPT !.processed = @ + Len(messages)]
  /\ ci' = ci + 1
  /\ pc' = "channel"
  /\ messages' = <<>>
  /\ mi' = 1
  /\ last' = [op |-> "channel_done", c |-> SOURCE_CHANNELS[ci], slept |-> 2,
              delay |-> inter_channel_delay(Len(messages))]
  /\ UNCHANGED <<now, posts, start_time, processed_posts, channel_settings, stats,
                 pass, fwdCount, lost, filterVars, others, statVars, schedVars>>

\* process_all_channels, after the channel loop: update_statistics with the
\* client's counters, the counters are reset, results is returned
PassEnd(dbok) ==
  /\ pc = "channel"
  /\ ci > Len(SOURCE_CHANNELS)
  /\ statistics' = update_statistics(statistics, stats.posts_processed,
                                     stats.posts_forwarded, 0, today, dbok)
  /\ supplied' = Supply(supplied, stats.posts_processed, stats.posts_forwarded, 0,
                        today, dbok)
  /\ stats' = ZeroStats
  /\ pc' = after_collection(mode, is_running)
  /\ client' = after_collection_client(mode, client)
  /\ ci' = 1
  /\ results' = ZeroResults
  /\ pass' = ZeroPass
  /\ last' = [op |-> "return", results |-> results, pass |-> pass,
              update_statistics |-> <<stats.posts_processed, stats.posts_forwarded, 0>>,
              cooldown |-> cool_down(collection_raises(pass.failed # {} \/ ~dbok))]
  /\ UNCHANGED <<now, posts, start_time, processed_posts, channel_settings,
                 messages, mi, fwdCount, lost, today, is_running, mode, filterVars, others>>

\* The pipeline under a scheduler that stays Running: maintenance, restarts and
\* every fault of transport and dedup store. stop(), signals, the liveness
\* check and a failing statistics write are drawn in NextSched.
Next ==
  \/ IntervalSleep
  \/ \E c \in Channels, text \in Texts : Post(c, text)
  \/ \E c \in Channels, i \in Ids : Delete(c, i)
  \/ Restart
  \/ \E days \in PurgeAges : Purge(days)
  \/ \E c \in Channels : reset_channel(c)
  \/ \E authorized \in BOOLEAN : initialize(authorized)
  \/ (pc = "ready" /\ start)
  \/ \E connected \in BOOLEAN : PassStart(connected)
  \/ \E outcome \in Outcomes, dbok \in BOOLEAN : GetMessages(outcome, dbok)
  \/ \E readok \in BOOLEAN, sent \in BOOLEAN, writeok \in BOOLEAN :
        ForwardStep(readok, sent, writeok)
  \/ ChannelDone
  \/ PassEnd(TRUE)

Spec == Init /\ [][Next]_vars

\* ------------------------------------------- the filter step on its own
\* Batches as the transport delivers them: newest first, ids falling; a date
\* may be missing (None) and a text may be missing or a command.
FilterDates == {NoTime, 0, 1, 2, 3}
FilterBoundaries == {1, 2}
Batches ==
  UNION {{[i \in 1..n |-> [id |-> n - i + 1, date |-> d[i], text |-> t[i]]] :
            d \in [1..n -> FilterDates], t \in [1..n -> Texts]} : n \in 0..MaxLen}

InitFilter ==
  /\ InitPipe
  /\ mode = "daemon"
  /\ boundary \in FilterBoundaries
  /\ batch \in Batches
  /\ candidates = <<>>

\* get_channel_messages(channel) with start_time = boundary, the transport
\* delivering batch or failing
FilterStep(outcome) ==
  /\ candidates' = get_channel_messages(batch, boundary, outcome)
  /\ last' = [op |-> "filter", kind |-> outcome.kind,
              slept |-> get_channel_messages_sleep(boundary, outcome)]
  /\ UNCHANGED <<now, posts, start_time, processed_posts, channel_settings, stats, pc, ci,
                 messages, mi, results, pass, fwdCount, lost, boundary, batch,
                 statVars, schedVars, others>>

NextFilter == \E outcome \in Outcomes : FilterStep(outcome)

SpecFilter == InitFilter /\ [][NextFilter]_vars

\* ------------------------------------ a pass before any run boundary
\* A TelegramNewsClient as its constructor leaves it (start_time None, client
\* None) over a database file and channels that earlier processes have used.
UnsetHistories ==
  {<<>>, <<[date |-> 0, text |-> TextHi, live |-> TRUE]>>,
   <<[date |-> 0, text |-> TextHi, live |-> TRUE],
     [date |-> 1, text |-> TextHi, live |-> TRUE]>>}
UnsetRecords ==
  {[channel_username |-> c, message_id |-> 1, message_text |-> TextHi, post_date |-> 0,
    processed_date |-> 0, is_published |-> TRUE, summary |-> "forwarded"] : c \in Channels}
UnsetRows == {NoRow, [last_message_id |-> 1, is_active |-> TRUE, added_date |-> 0]}

InitUnset ==
  /\ now = 1
  /\ posts \in [Channels -> UnsetHistories]
  /\ start_time = NoTime
  /\ processed_posts \in SUBSET UnsetRecords
  /\ channel_settings \in [Channels -> UnsetRows]
  /\ stats = ZeroStats
  /\ pc = "new"
  /\ ci = 1 /\ messages = <<>> /\ mi = 1
  /\ results = ZeroResults
  /\ pass = ZeroPass
  /\ fwdCount = [k \in Keys |-> 0]
  /\ lost = {}
  /\ last = [op |-> "init"]
  /\ statistics = {} /\ today = 0 /\ supplied = [d \in Days |-> ZeroCounters]
  /\ is_running = FALSE /\ client = "none" /\ mode = "daemon"
  /\ others = ZeroOthers
  /\ boundary = 0 /\ batch = <<>> /\ candidates = <<>>

\* process_all_channels called on that object: results is zeroed and the
\* channel loop begins
ProcessUnset ==
  /\ pc = "new"
  /\ start_time = NoTime
  /\ results' = ZeroResults
  /\ ci' = 1
  /\ pc' = "channel"
  /\ pass' = ZeroPass
  /\ last' = [op |-> "pass_start"]
  /\ UNCHANGED <<now, posts, start_time, processed_posts, channel_settings, stats,
                 messages, mi, fwdCount, lost, filterVars, others, statVars, schedVars>>

NextUnset ==
  \/ ProcessUnset
  \/ \E outcome \in Outcomes, dbok \in BOOLEAN : GetMessages(outcome, dbok)
  \/ \E dbok \in BOOLEAN : PassEnd(dbok)

SpecUnset == InitUnset /\ [][NextUnset]_vars

\* ------------------------------------------------ maintenance operations
\* The maintenance commands over a database that earlier processes have
\* filled; the clock counts days here.
RetentionDays == 30
MaintTimes == {1, RetentionDays + 1}
MaintRecords ==
  {[channel_username |-> c, message_id |-> 1, message_text |-> TextHi, post_date |-> 0,
    processed_date |-> d, is_published |-> TRUE, summary |-> "forwarded"] :
     c \in Channels, d \in {0, 1}}
MaintStores ==
  {S \in SUBSET MaintRecords :
     \A r \in S, q \in S : SameKey(r, q.channel_username, q.message_id) => r = q}
MaintRows ==
  {NoRow} \cup {[last_message_id |-> 1, is_active |-> a, added_date |-> 0] : a \in BOOLEAN}
MaintStatistics == {{}, update_statistics({}, 1, 1, 0, 0, TRUE)}

InitMaint ==
  /\ now \in MaintTimes
  /\ posts = [c \in Channels |-> <<>>]
  /\ start_time = NoTime
  /\ processed_posts \in MaintStores
  /\ channel_settings \in [Channels -> MaintRows]
  /\ stats = ZeroStats
  /\ pc = "new"
  /\ ci = 1 /\ messages = <<>> /\ mi = 1
  /\ results = ZeroResults
  /\ pass = ZeroPass
  /\ fwdCount = [k \in Keys |-> 0]
  /\ lost = {}
  /\ last = [op |-> "init"]
  /\ statistics \in MaintStatistics
  /\ today = 0 /\ supplied = [d \in Days |-> ZeroCounters]
  /\ is_running = FALSE /\ client = "none" /\ mode = "daemon"
  /\ others = ZeroOthers
  /\ boundary = 0 /\ batch = <<>> /\ candidates = <<>>

\* NewsSnifferUtils.cleanup_old_posts(days) as a whole: the DELETE, the count
\* it returns, and `except sqlite3.Error: return 0` (dbok = FALSE)
CleanupOldPosts(days, dbok) ==
  /\ pc = "new"
  /\ processed_posts' = IF dbok THEN cleanup_old_posts(processed_posts, days, now)
                        ELSE processed_posts
  /\ lost' = lost \cup {<<r.channel_username, r.message_id>> :
                          r \in processed_posts \ processed_posts'}
  /\ last' = [op |-> "cleanup_old_posts", days |-> days, dbok |-> dbok,
              deleted_count |-> Cardinality(processed_posts \ processed_posts')]
  /\ UNCHANGED <<now, posts, start_time, channel_settings, stats, pc, ci,
                 messages, mi, results, pass, fwdCount, filterVars, others, statVars,
                 schedVars>>

\* NewsScheduler._cleanup_database: the same DELETE with '-30 days'
CleanupDatabase(dbok) ==
  /\ pc = "new"
  /\ processed_posts' = IF dbok
                        THEN cleanup_old_posts(processed_posts, RetentionDays, now)
                        ELSE processed_posts
  /\ lost' = lost \cup {<<r.channel_username, r.message_id>> :
                          r \in processed_posts \ processed_posts'}
  /\ last' = [op |-> "cleanup_database", days |-> RetentionDays, dbok |-> dbok,
              deleted_count |-> Cardinality(processed_posts \ processed_posts')]
  /\ UNCHANGED <<now, posts, start_time, channel_settings, stats, pc, ci,
                 messages, mi, results, pass, fwdCount, filterVars, others, statVars,
                 schedVars>>

\* DatabaseManager.add_channel(c), as initialize and the add-channel command
\* call it
AddChannel(c, dbok) ==
  /\ pc = "new"
  /\ channel_settings' = add_channel(channel_settings, c, now, dbok)
  /\ last' = [op |-> "add_channel", c |-> c, dbok |-> dbok, prev |-> channel_settings[c]]
  /\ UNCHANGED <<now, posts, start_time, processed_posts, stats, pc, ci,
                 messages, mi, results, pass, fwdCount, lost, filterVars, others, statVars,
                 schedVars>>

\* NewsSnifferUtils.remove_channel: UPDATE ... SET is_active = 0, the row stays
RemoveChannel(c, dbok) ==
  /\ pc = "new"
  /\ channel_settings' = IF dbok /\ channel_settings[c] # NoRow
                         THEN [channel_settings EXCEPT ![c].is_active = FALSE]
                         ELSE channel_settings
  /\ last' = [op |-> "remove_channel", c |-> c, dbok |-> dbok]
  /\ UNCHANGED <<now, posts, start_time, processed_posts, stats, pc, ci,
                 messages, mi, results, pass, fwdCount, lost, filterVars, others, statVars,
                 schedVars>>

\* DatabaseManager.get_last_message_id(c)
GetWatermark(c, dbok) ==
  /\ pc = "new"
  /\ last' = [op |-> "get_last_message_id", c |-> c, dbok |-> dbok,
              ret |-> get_last_message_id(channel_settings, c, dbok)]
  /\ UNCHANGED <<now, posts, start_time, processed_posts, channel_settings, stats, pc, ci,
                 messages, mi, results, pass, fwdCount, lost, filterVars, others, statVars,
                 schedVars>>

\* DatabaseManager.update_last_message_id(c, id), as a pass calls it
AdvanceWatermark(c, id, dbok) ==
  /\ pc = "new"
  /\ channel_settings' = update_last_message_id(channel_settings, c, id, now, dbok)
  /\ last' = [op |-> "update_last_message_id", c |-> c, id |-> id, dbok |-> dbok,
              prev |-> channel_settings[c]]
  /\ UNCHANGED <<now, posts, start_time, processed_posts, stats, pc, ci,
                 messages, mi, results, pass, fwdCount, lost, filterVars, others, statVars,
                 schedVars>>

NextMaint ==
  \/ \E c \in Channels, id \in 1..MaxPosts, dbok \in BOOLEAN : AdvanceWatermark(c, id, dbok)
  \/ \E c \in Channels, dbok \in BOOLEAN : AddChannel(c, dbok)
  \/ \E c \in Channels, dbok \in BOOLEAN : RemoveChannel(c, dbok)
  \/ \E c \in Channels, dbok \in BOOLEAN : GetWatermark(c, dbok)
  \/ \E days \in PurgeAges \cup {RetentionDays}, dbok \in BOOLEAN : CleanupOldPosts(days, dbok)
  \/ \E dbok \in BOOLEAN : CleanupDatabase(dbok)

SpecMaint == InitMaint /\ [][NextMaint]_vars

\* ------------------------------------------------- the Interval Scheduler
\* close that leaves the connection as it is
close_noop(cl) == cl

\* TelegramNewsClient.close
close(cl) == IF cl = "none" THEN cl ELSE "disconnected"

\* NewsScheduler.stop, called by another task while the loop is suspended in
\* its sleep or inside a pass, or before start
stop ==
  /\ pc \in {"ready", "idle", "channel", "forward"}
  /\ IF is_running
     THEN is_running' = FALSE /\ client' = close(client)
     ELSE UNCHANGED <<is_running, client>>
  /\ last' = [op |-> "stop", was |-> is_running]
  /\ UNCHANGED <<now, posts, start_time, processed_posts, channel_settings, stats, pc, ci,
                 messages, mi, results, pass, fwdCount, lost, mode, filterVars, others, statVars>>

\* run_daemon.signal_handler on SIGINT / SIGTERM: the flag is cleared and
\* sys.exit(0) raises SystemExit where the process stands; asyncio.run cancels
\* the scheduler task and the process ends
Signal ==
  /\ mode = "daemon"
  /\ pc \in {"ready", "idle", "woke", "channel", "forward"}
  /\ is_running' = FALSE
  /\ pc' = "exited"
  /\ last' = [op |-> "signal", at |-> pc,
              pending |-> IF pc = "forward" THEN Len(messages) - mi + 1 ELSE 0]
  /\ UNCHANGED <<now, posts, start_time, processed_posts, channel_settings, stats, ci,
                 messages, mi, results, pass, fwdCount, lost, client, mode,
                 filterVars, others, statVars>>

\* NewsScheduler._health_check while the loop sleeps: is_connected = FALSE is
\* test_connection returning False, followed by TelegramNewsClient.initialize
health_check(is_connected, authorized) ==
  /\ pc = "idle"
  /\ is_connected => client = "connected"
  /\ IF ~is_connected /\ authorized
     THEN /\ start_time' = set_start_time(start_time, now)
          /\ channel_settings' = add_channels(channel_settings, 1, now)
          /\ client' = "connected"
     ELSE /\ client' = IF is_connected THEN client ELSE "disconnected"
          /\ UNCHANGED <<start_time, channel_settings>>
  /\ last' = [op |-> "health_check", is_connected |-> is_connected,
              ret |-> ~is_connected /\ authorized]
  /\ UNCHANGED <<now, posts, processed_posts, stats, pc, ci, messages, mi, results, pass,
                 fwdCount, lost, is_running, mode, filterVars, others, statVars>>

InitSched ==
  /\ InitPipe
  /\ mode \in {"daemon", "once"}
  /\ boundary = 0 /\ batch = <<>> /\ candidates = <<>>

NextSched ==
  \/ \E authorized \in BOOLEAN : initialize(authorized)
  \/ ((pc = "ready" \/ is_running) /\ start)
  \/ IntervalSleep
  \/ \E connected \in BOOLEAN : PassStart(connected)
  \/ SkipPass
  \/ \E outcome \in Outcomes : GetMessages(outcome, TRUE)
  \/ \E sent \in BOOLEAN : ForwardStep(TRUE, sent, TRUE)
  \/ ChannelDone
  \/ \E dbok \in BOOLEAN : PassEnd(dbok)
  \/ stop
  \/ Signal
  \/ \E is_connected \in BOOLEAN, authorized \in BOOLEAN :
        health_check(is_connected, authorized)
  \/ \E c \in Channels : Post(c, TextHi)

SpecSched == InitSched /\ [][NextSched]_vars

\* ---------------------------------------------- start() after stop(): loops
\* A further start_daemon loop, its sleep over: asyncio.sleep of another
\* coroutine returns at an instant of its own
OtherWake ==
  /\ pc # "exited"
  /\ others.idle > 0
  /\ others' = [others EXCEPT !.idle = @ - 1, !.woke = @ + 1]
  /\ last' = [op |-> "other_wake"]
  /\ UNCHANGED <<now, posts, start_time, processed_posts, channel_settings, stats, pc, ci,
                 messages, mi, results, pass, fwdCount, lost, filterVars, statVars,
                 schedVars>>

\* A further start_daemon loop after its sleep: `if self.is_running`,
\* run_news_collection with its test_connection, `while self.is_running`. A
\* pass that it enters stays in progress.
OtherCollect(connected) ==
  /\ pc # "exited"
  /\ others.woke > 0
  /\ connected => client = "connected"
  /\ others' =
       IF after_sleep(is_running) /\ connected
       THEN [others EXCEPT !.woke = @ - 1, !.passing = @ + 1]
       ELSE IF after_collection(mode, is_running) = "idle"
            THEN [others EXCEPT !.woke = @ - 1, !.idle = @ + 1]
            ELSE [others EXCEPT !.woke = @ - 1]
  /\ last' = [op |-> "other_collect", connected |-> connected]
  /\ UNCHANGED <<now, posts, start_time, processed_posts, channel_settings, stats, pc, ci,
                 messages, mi, results, pass, fwdCount, lost, filterVars, statVars,
                 schedVars>>

\* start(), stop() and the wake-ups of the loops, interleaved at will
NextLoops ==
  \/ \E authorized \in BOOLEAN : initialize(authorized)
  \/ start
  \/ stop
  \/ IntervalSleep
  \/ \E connected \in BOOLEAN : PassStart(connected)
  \/ SkipPass
  \/ \E outcome \in Outcomes : GetMessages(outcome, TRUE)
  \/ \E sent \in BOOLEAN : ForwardStep(TRUE, sent, TRUE)
  \/ ChannelDone
  \/ PassEnd(TRUE)
  \/ OtherWake
  \/ \E connected \in BOOLEAN : OtherCollect(connected)
  \/ \E c \in Channels : Post(c, TextHi)

SpecLoops == Init /\ [][NextLoops]_vars

\* start_daemon is one coroutine: asyncio.sleep returns when the interval has
\* passed, and the statement after it is then executed
SpecSchedLive ==
  /\ SpecSched
  /\ WF_vars(IntervalSleep)
  /\ WF_vars(\E connected \in BOOLEAN : PassStart(connected))

\* ------------------------------------------- the daemon as main.py wires it
\* The connection to the transport drops while the loop sleeps: from now on
\* client.get_me() raises until the client is initialized anew.
ConnectionLost ==
  /\ pc = "idle"
  /\ client = "connected"
  /\ client' = "disconnected"
  /\ last' = [op |-> "connection_lost"]
  /\ UNCHANGED <<now, posts, start_time, processed_posts, channel_settings, stats, pc, ci,
                 messages, mi, results, pass, fwdCount, lost, is_running, mode,
                 filterVars, others, statVars>>

\* What the daemon process executes: run_daemon calls initialize and start,
\* start_daemon sleeps and collects; stop() may be called. Nothing in the
\* program calls _health_check or _cleanup_database and no job is registered
\* with `schedule`, so they are no steps of the process.
NextWired ==
  \/ \E authorized \in BOOLEAN : initialize(authorized)
  \/ (pc = "ready" /\ start)
  \/ IntervalSleep
  \/ \E connected \in BOOLEAN : PassStart(connected)
  \/ SkipPass
  \/ \E outcome \in Outcomes : GetMessages(outcome, TRUE)
  \/ \E sent \in BOOLEAN : ForwardStep(TRUE, sent, TRUE)
  \/ ChannelDone
  \/ PassEnd(TRUE)
  \/ stop
  \/ ConnectionLost
  \/ \E c \in Channels : Post(c, TextHi)

\* every await of the loop and of the pass returns
SpecWiredLive ==
  /\ Init /\ [][NextWired]_vars
  /\ WF_vars(IntervalSleep)
  /\ WF_vars(\E connected \in BOOLEAN : PassStart(connected))
  /\ WF_vars(SkipPass)
  /\ WF_vars(\E outcome \in Outcomes : GetMessages(outcome, TRUE))
  /\ WF_vars(\E sent \in BOOLEAN : ForwardStep(TRUE, sent, TRUE))
  /\ WF_vars(ChannelDone)
  /\ WF_vars(PassEnd(TRUE))

\* every await of the loop and of the pass returns: the sleep ends, the
\* statement after it is executed, and a pass in progress runs to its end
SpecSchedStop ==
  /\ SpecSched
  /\ WF_vars(IntervalSleep)
  /\ WF_vars(\E connected \in BOOLEAN : PassStart(connected))
  /\ WF_vars(SkipPass)
  /\ WF_vars(\E outcome \in Outcomes : GetMessages(outcome, TRUE))
  /\ WF_vars(\E sent \in BOOLEAN : ForwardStep(TRUE, sent, TRUE))
  /\ WF_vars(ChannelDone)
  /\ WF_vars(\E dbok \in BOOLEAN : PassEnd(dbok))

\* ------------------------------------------------ a burst of posts, no faults
\* The daemon with a transport and a store that never fail, and source
\* channels that receive up to MaxBurst text messages.
NextBurst ==
  \/ initialize(TRUE)
  \/ (pc = "ready" /\ start)
  \/ IntervalSleep
  \/ PassStart(TRUE)
  \/ GetMessages([kind |-> "ok", seconds |-> 0], TRUE)
  \/ ForwardStep(TRUE, TRUE, TRUE)
  \/ ChannelDone
  \/ PassEnd(TRUE)
  \/ \E c \in Channels : PostUpTo(c, TextHi, MaxBurst)

SpecBurst == Init /\ [][NextBurst]_vars

\* --------------------------------------------- rate limits while forwarding
\* The daemon with a store that never fails and a transport that retrieves
\* without fault and forwards, fails or signals a rate limit.
NextFlood ==
  \/ initialize(TRUE)
  \/ (pc = "ready" /\ start)
  \/ IntervalSleep
  \/ PassStart(TRUE)
  \/ GetMessages([kind |-> "ok", seconds |-> 0], TRUE)
  \/ \E fwd \in Outcomes : ForwardStepOn(TRUE, fwd, TRUE)
  \/ ChannelDone
  \/ PassEnd(TRUE)
  \/ \E c \in Channels : Post(c, TextHi)

SpecFlood == Init /\ [][NextFlood]_vars

\* --------------------------------------------- the statistics table on its own
\* DatabaseManager.update_statistics called with counters of 0 or 1, the
\* statement executing or failing with sqlite3.Error
Counters == 0..1

UpdateStatistics(p, q, f, dbok) ==
  /\ Cardinality(statistics) < MaxCalls
  /\ statistics' = update_statistics(statistics, p, q, f, today, dbok)
  /\ supplied' = Supply(supplied, p, q, f, today, dbok)
  /\ last' = [op |-> "update_statistics", args |-> <<p, q, f>>, dbok |-> dbok]
  /\ UNCHANGED <<now, posts, start_time, processed_posts, channel_settings, stats, pc, ci,
                 messages, mi, results, pass, fwdCount, lost, today, filterVars, others, schedVars>>

\* CURRENT_DATE moves to the next calendar date
NewDay ==
  /\ today < MaxDay
  /\ today' = today + 1
  /\ last' = [op |-> "new_day"]
  /\ UNCHANGED <<now, posts, start_time, processed_posts, channel_settings, stats, pc, ci,
                 messages, mi, results, pass, fwdCount, lost, statistics, supplied,
                 filterVars, others, schedVars>>

NextStats ==
  \/ \E p \in Counters, q \in Counters, f \in Counters, dbok \in BOOLEAN :
        UpdateStatistics(p, q, f, dbok)
  \/ NewDay

SpecStats == Init /\ [][NextStats]_vars

\* ------------------------------------------------------------------ claims
TextOk(text) == Len(text) > 0 /\ text[1] # "/"
HasDate(m) == m.date # NoTime

\* the positions of b at or before the boundary B
AtOrBefore(b, B) == {j \in 1..Len(b) : HasDate(b[j]) /\ b[j].date <= B}
FirstAtOrBefore(b, B) ==
  IF AtOrBefore(b, B) = {} THEN Len(b) + 1
  ELSE CHOOSE j \in AtOrBefore(b, B) : \A k \in AtOrBefore(b, B) : j <= k
Retained(b, B) ==
  {i \in 1..(FirstAtOrBefore(b, B) - 1) :
     HasDate(b[i]) /\ b[i].date > B /\ TextOk(b[i].text)}
RECURSIVE Pick(_, _, _)
Pick(b, I, i) ==
  IF i > Len(b) THEN <<>>
  ELSE (IF i \in I THEN <<b[i]>> ELSE <<>>) \o Pick(b, I, i + 1)

\* C5: for a run boundary B and a delivered batch, the candidates are exactly
\* the messages that come before the first message dated at or before B, are
\* dated after B and carry non-empty text that does not start with '/', in the
\* order of the batch; they are a function of B and the batch alone.
C5_BoundaryFilter ==
  (last.op = "filter" /\ last.kind = "ok") =>
     candidates = Pick(batch, Retained(batch, boundary), 1)

\* C5 witness: B = T0, batch [105 at T0+5 'hi', 104 at T0+3 '/cmd',
\* 103 at T0-1 'old'] has been filtered to [105] (T0 = 1, ids 3, 2, 1)
C5_Scenario ==
  /\ last.op = "filter" /\ last.kind = "ok"
  /\ boundary = 1
  /\ batch = <<[id |-> 3, date |-> 3, text |-> TextHi],
               [id |-> 2, date |-> 2, text |-> TextCmd],
               [id |-> 1, date |-> 0, text |-> TextHi]>>
  /\ candidates = <<[id |-> 3, date |-> 3, text |-> TextHi]>>

\* A processed record exists for the key (the table's content, read directly)
HasRecord(rows, c, m) == \E r \in rows : r.channel_username = c /\ r.message_id = m
Watermark(cs, c) == IF cs[c] = NoRow THEN 0 ELSE cs[c].last_message_id
IsCommand(c, m) == startswith(posts[c][m].text, "/")

\* C3: every message forwarded in the lifetime of a process is dated strictly
\* after that process's run boundary; no candidate is dated at or before it.
C3_AfterBoundary ==
  /\ (last.op = "candidate" /\ last.attempted) =>
        /\ start_time # NoTime
        /\ posts[last.c][last.id].date > start_time
  /\ \A i \in 1..Len(messages) :
        start_time # NoTime /\ messages[i].date > start_time

\* C3 witness: a forward was delivered by a process whose boundary is not the
\* first one, while a message dated exactly at the boundary is in that channel
C3_Forwarded ==
  /\ last.op = "candidate" /\ last.sent
  /\ start_time > 0
  /\ \E i \in 1..Len(posts[last.c]) :
        posts[last.c][i].live /\ posts[last.c][i].date = start_time

\* C6: a message whose text begins with '/' is never a candidate, whatever its
\* date, is never forwarded, never recorded as processed and is never the
\* channel's watermark.
C6_CommandExcluded ==
  /\ \A i \in 1..Len(messages) : ~startswith(messages[i].text, "/")
  /\ \A i \in 1..Len(candidates) : ~startswith(candidates[i].text, "/")
  /\ \A k \in Keys : fwdCount[k] > 0 => ~IsCommand(k[1], k[2])
  /\ \A r \in processed_posts :
        ~IsCommand(r.channel_username, r.message_id) /\ ~startswith(r.message_text, "/")
  /\ \A c \in Channels :
        Watermark(channel_settings, c) # 0 => ~IsCommand(c, Watermark(channel_settings, c))

\* C6 witness: the newest message of a channel is a command dated after the
\* boundary, and a pass has forwarded an older message of that channel
C6_CommandSkipped ==
  /\ last.op = "candidate" /\ last.sent
  /\ Len(posts[last.c]) = 2
  /\ posts[last.c][2].live /\ posts[last.c][2].date > start_time
  /\ IsCommand(last.c, 2)
  /\ last.id = 1

\* C1 as claimed: every (channel, message id) is forwarded at most once
C1_AtMostOnce == \A k \in Keys : fwdCount[k] <= 1

\* C1 amended: a candidate whose record is stored and whose lookup succeeds is
\* skipped and adds nothing to the forwarded count; a (channel, message id)
\* is forwarded a second time only after its record was not written (store
\* write failure), was not read (lookup failure) or was removed (purge, reset).
C1_AtMostOnceWhileRecorded ==
  /\ \A k \in Keys : fwdCount[k] >= 2 => k \in lost
  /\ (last.op = "candidate" /\ last.had /\ last.readok) =>
        (~last.attempted /\ ~last.sent /\ ~last.ret)

\* C1 witness: a later pass is presented a message that was forwarded and
\* recorded once, and skips it
C1_SecondPassSkips ==
  /\ last.op = "candidate" /\ last.found /\ ~last.attempted
  /\ fwdCount[<<last.c, last.id>>] = 1
  /\ <<last.c, last.id>> \notin lost
  /\ now = 2

\* C2: has_processed(channel, id), when its query succeeds, is true iff a
\* record exists for exactly that key; a record stays until a purge or reset
\* removes it, and a record appears only by record_processed for its key.
C2_HasProcessed ==
  /\ []((last.op = "candidate" /\ last.readok) => (last.found <=> last.had))
  /\ [][\A k \in Keys :
          /\ (HasRecord(processed_posts, k[1], k[2]) /\ ~HasRecord(processed_posts', k[1], k[2]))
                => last'.op \in {"purge", "reset_channel"}
          /\ (~HasRecord(processed_posts, k[1], k[2]) /\ HasRecord(processed_posts', k[1], k[2]))
                => (last'.op = "candidate" /\ last'.wrote /\ k = <<last'.c, last'.id>>)
       ]_vars

\* C2 witness: the lookup finds a recorded key while the same message id of
\* another channel, posted there, has no record
C2_FoundExactKey ==
  /\ last.op = "candidate" /\ last.found /\ last.readok
  /\ \E c \in Channels \ {last.c} :
        /\ Len(posts[c]) >= last.id
        /\ ~HasRecord(processed_posts, c, last.id)

\* C4 as claimed: the Channel Processor never calls advance_watermark with a
\* value lower than the channel's stored watermark
C4_MonotonicWatermark ==
  (last.op = "get_channel_messages" /\ last.n > 0) =>
     last.wm >= (IF last.prev = NoRow THEN 0 ELSE last.prev.last_message_id)

ChannelIndex(c) == CHOOSE i \in 1..Len(SOURCE_CHANNELS) : SOURCE_CHANNELS[i] = c

\* C7: when retrieval for a channel fails in a pass, the pass still visits
\* every configured channel in order, returns, and its totals are the sums
\* over the channels that did not fail; the failed channel adds nothing.
C7_FaultIsolation ==
  (last.op = "return") =>
     LET p == last.pass IN
       /\ p.visited = SOURCE_CHANNELS
       /\ last.results.processed = SumOver(p.cand, Channels \ p.failed)
       /\ last.results.forwarded = SumOver(p.fwd, Channels \ p.failed)
       /\ \A c \in p.failed : p.fwd[c] = 0 /\ p.cand[c] = 0

\* C7 witness: the first channel failed, a later channel of the same pass
\* forwarded a message, and the pass returned
C7_LaterChannelForwarded ==
  /\ last.op = "return"
  /\ SOURCE_CHANNELS[1] \in last.pass.failed
  /\ last.results.forwarded >= 1
  /\ last.results.processed >= 1

\* C8: a rate limit on retrieval makes the processor sleep for the signaled
\* duration and return nothing for the channel: no candidate is kept, nothing
\* of the channel is forwarded in this pass, its watermark row is the one it
\* had, the channel is visited once, and the pass stands at the next channel.
C8_RetrievalRateLimit ==
  /\ \A c \in pass.failed : pass.fwd[c] = 0 /\ pass.cand[c] = 0
  /\ (last.op = "get_channel_messages" /\ last.kind = "flood" /\ last.failed) =>
        /\ last.slept = last.seconds
        /\ last.n = 0
        /\ messages = <<>>
        /\ channel_settings[last.c] = last.prev
        /\ pc = "channel"
        /\ ci = ChannelIndex(last.c) + 1
        /\ Cardinality({i \in 1..Len(pass.visited) : pass.visited[i] = last.c}) = 1

\* C8 witness: a 30 second rate limit hit the first channel while it held a
\* message that the filter would have retained
C8_RateLimited ==
  /\ last.op = "get_channel_messages" /\ last.kind = "flood" /\ last.failed
  /\ last.seconds = 30
  /\ last.c = SOURCE_CHANNELS[1]
  /\ walk(iter_messages(posts[last.c], Limit), 1, start_time) # <<>>

\* C9: a failed forward writes no record, is not counted as forwarded, and
\* the loop goes on to the next candidate of the channel; a candidate that
\* has no record is attempted (not skipped) in whichever pass presents it.
C9_ForwardFailure ==
  [][ /\ (last'.op = "candidate" /\ last'.attempted /\ ~last'.sent) =>
           /\ processed_posts' = processed_posts
           /\ results' = results
           /\ stats' = stats
           /\ fwdCount' = fwdCount
           /\ ~last'.ret
           /\ pc' = "forward" /\ messages' = messages /\ mi' = mi + 1
      /\ (last'.op = "candidate" /\ ~last'.had) => last'.attempted
    ]_vars

\* C9 witness: the forward of the first of two candidates failed and the second
\* candidate is next
C9_FailedThenNext ==
  /\ last.op = "candidate" /\ last.attempted /\ ~last.sent
  /\ pc = "forward" /\ mi = 2 /\ Len(messages) = 2
  /\ ~HasRecord(processed_posts, last.c, last.id)

\* C10: there is at most one processed-post record per (channel, message id);
\* a record_processed that writes for an existing key leaves exactly one
\* record for it, holding the latest values.
C10_UniqueRecord ==
  /\ \A r1 \in processed_posts, r2 \in processed_posts :
        (r1.channel_username = r2.channel_username /\ r1.message_id = r2.message_id)
           => r1 = r2
  /\ (last.op = "candidate" /\ last.wrote) =>
        \E r \in processed_posts :
           /\ r.channel_username = last.c /\ r.message_id = last.id
           /\ r.processed_date = now
           /\ r.post_date = posts[last.c][last.id].date
           /\ r.message_text = posts[last.c][last.id].text
           /\ r.is_published /\ r.summary = "forwarded"

\* C10 witness: record_processed has written for a key that had a record of
\* an earlier date
C10_Rewritten ==
  /\ last.op = "candidate" /\ last.wrote /\ last.had
  /\ now = 2

\* C11 as claimed: the date is a unique key of the daily counters, and the
\* counters stored for a date are the sums of what was supplied on that date.
C11_DailyCumulative ==
  \A d \in Days :
     /\ Cardinality(OfDate(statistics, d)) <= 1
     /\ \A r \in OfDate(statistics, d) :
           <<r.posts_processed, r.posts_published, r.posts_filtered>> = supplied[d]

\* every variable but the observation of the last step
ExceptLast == <<now, posts, start_time, processed_posts, channel_settings, stats, pc, ci,
                messages, mi, results, pass, fwdCount, lost, boundary, batch, candidates,
                statistics, today, supplied, is_running, client, mode, others>>

\* C12: a start() request made while the scheduler is Running starts no second
\* scheduling loop and changes no state: the flag, the position of the one
\* loop, its pass in progress and the stores are what they were.
C12_StartNotReentrant ==
  [][(last'.op = "start" /\ is_running) => (last'.was /\ UNCHANGED ExceptLast)]_vars

\* C12 witness: start() was called while a pass was forwarding, and the pass
\* stands where it stood
C12_StartWhileRunning ==
  /\ last.op = "start" /\ last.was
  /\ is_running
  /\ pc = "forward" /\ mi <= Len(messages)

\* C13 as claimed: after stop() the scheduler is Stopped and the gateway
\* connection is closed, from whichever state stop() was called.
C13_StopCloses ==
  (last.op = "stop") => (~is_running /\ client = "disconnected")

\* the steps that invoke run_news_collection
Collects(l) == l.op \in {"pass_start", "no_connection"}

\* C14: in the scheduling loop every collection is invoked from the end of an
\* interval sleep and only while the scheduler is Running; the end of a sleep
\* is reached by one sleep alone, which advances the clock by one interval; a
\* pass is entered from nowhere else.
C14_LoopOrder ==
  [][ /\ (Collects(last') /\ ~Collects(last) /\ mode = "daemon") =>
           (pc = "woke" /\ is_running)
      /\ (pc' = "woke" /\ pc # "woke") =>
           (pc = "idle" /\ last'.op = "sleep" /\ now' = now + 1)
      /\ (pc' = "channel" /\ pc \notin {"channel", "forward"} /\ mode = "daemon") =>
           (pc = "woke" /\ is_running /\ last'.op = "pass_start")
      /\ (pc = "woke" /\ ~is_running) => pc' \in {"woke", "exited"}
    ]_vars

\* C14 witness: the scheduler was stopped during a sleep; when the sleep ended
\* no pass was started and the loop ended
C14_StoppedDuringSleep ==
  /\ last.op = "skip_pass"
  /\ mode = "daemon" /\ ~is_running /\ pc = "exited"
  /\ now >= 1

\* C16 as claimed: a stop signal never ends the process inside a pass (the
\* pass completes and only the next iteration is skipped), and the gateway
\* connection is closed.
C16_SignalCancellation ==
  (last.op = "signal") =>
     /\ last.at \in {"channel", "forward"} => pc # "exited"
     /\ client # "connected"

\* C17: when initialize() returns false the run boundary stays unset, the
\* scheduler is not Running, and the process is over: initialize is not tried
\* again and no pass is ever run; a pass runs only with a run boundary.
C17_FailedInitIsFatal ==
  /\ [][(last'.op = "initialize" /\ ~last'.ret /\ pc = "new") =>
          (start_time' = NoTime /\ ~is_running' /\ pc' = "exited")]_vars
  /\ [][pc = "exited" => (pc' = "exited" /\ ~is_running' /\ start_time' = start_time)]_vars
  /\ [](pc \in {"channel", "forward"} => start_time # NoTime)
  /\ []((is_running \/ pc \in {"ready", "idle", "woke"}) => start_time # NoTime)

\* C17 witness: initialize() failed in one-shot mode; nothing has run
C17_FailedOnce ==
  /\ last.op = "initialize" /\ ~last.ret
  /\ mode = "once"
  /\ pc = "exited" /\ start_time = NoTime /\ ~is_running

\* C18: the run boundary is set by the first successful initialize() and never
\* changes afterwards; a liveness check, with or without re-initialization,
\* changes neither the run boundary nor the stored watermark of any channel.
C18_RunBoundaryOnce ==
  /\ [][start_time # NoTime => start_time' = start_time]_vars
  /\ [][(start_time = NoTime /\ start_time' # NoTime) =>
          (last'.op = "initialize" /\ last'.ret /\ start_time' = now)]_vars
  /\ [][(last'.op = "health_check") =>
          /\ start_time' = start_time
          /\ \A c \in Channels :
                Watermark(channel_settings', c) = Watermark(channel_settings, c)]_vars

\* C18 witness: a failed liveness check has re-initialized the connection
\* later than the run boundary, while a channel has a watermark
C18_Reinitialized ==
  /\ last.op = "health_check" /\ ~last.is_connected /\ last.ret
  /\ start_time # NoTime /\ now > start_time
  /\ \E c \in Channels : Watermark(channel_settings, c) > 0

\* C19: when the dedup lookup fails the candidate is treated as not yet
\* processed: the lookup answers false, forward_message is called for it, and
\* it is forwarded whenever the transport delivers, also when a record of it
\* is stored.
C19_FailOpen ==
  (last.op = "candidate" /\ ~last.readok) =>
     /\ ~last.found
     /\ last.attempted
     /\ last.sent => (last.ret /\ fwdCount[<<last.c, last.id>>] >= 1)

\* C19 witness: the lookup failed for a candidate whose record is stored, and
\* the candidate was forwarded again
C19_ForwardedOnFailedLookup ==
  /\ last.op = "candidate" /\ ~last.readok /\ last.had
  /\ last.sent /\ last.ret
  /\ fwdCount[<<last.c, last.id>>] = 2

\* a pass in which something failed has returned to the loop at time t
FailedPassAt(t) ==
  /\ mode = "daemon" /\ is_running /\ pc = "idle" /\ now = t
  /\ \/ last.op = "no_connection"
     \/ last.op = "return" /\ last.pass.failed # {}

\* C15: whatever fails inside a pass, the collection returns to the loop with
\* the scheduler still Running and the loop at its next sleep; the running
\* flag is cleared by stop() or a signal alone; and after a failing pass the
\* loop sleeps one more interval and invokes the next collection, unless the
\* scheduler is stopped meanwhile.
C15_PassErrorsContained ==
  /\ [][(is_running /\ ~is_running') => last'.op \in {"stop", "signal"}]_vars
  /\ [][(mode = "daemon" /\ is_running /\ pc \in {"woke", "channel"} /\ pc' # pc
          /\ last'.op \in {"return", "no_connection"}) =>
            (is_running' /\ pc' = "idle")]_vars
  /\ \A t \in 0..(MaxTime - 1) :
        FailedPassAt(t) ~> ((now = t + 1 /\ Collects(last)) \/ ~is_running)

\* C15 witness: retrieval failed for every channel of a pass; the pass has
\* returned and the scheduler is Running, at its sleep
C15_FailedPassReturned ==
  /\ FailedPassAt(1)
  /\ last.op = "return" /\ last.pass.failed = Channels

\* a message that the filter retains: it exists, is dated after the run
\* boundary and carries text that is not a command
Eligible(c, i) ==
  /\ posts[c][i].live
  /\ start_time # NoTime /\ posts[c][i].date > start_time
  /\ TextOk(posts[c][i].text)

\* C20 as claimed: when a pass has worked through a channel with retrieval,
\* lookups and forwards all succeeding, every eligible message of the channel
\* has been forwarded, however many messages were posted since the last pass.
C20_EveryEligibleForwarded ==
  (last.op = "channel_done") =>
     \A i \in 1..Len(posts[last.c]) :
        Eligible(last.c, i) => fwdCount[<<last.c, i>>] >= 1

\* the passes in progress, over all scheduling loops
PassesExecuting ==
  (IF pc \in {"channel", "forward"} THEN 1 ELSE 0) + others.passing

\* C21: with start(), stop() and the wake-ups of the loops interleaved at
\* will, at most one pass is in progress at any time, and the pass in progress
\* works on one channel at a time, in configured order: the channels it has
\* visited are a prefix of the configured list and the candidates it forwards
\* are those of the channel visited last.
C21_OnePassAtATime ==
  /\ PassesExecuting <= 1
  /\ Len(pass.visited) <= Len(SOURCE_CHANNELS)
  /\ pass.visited = SubSeq(SOURCE_CHANNELS, 1, Len(pass.visited))
  /\ pc = "channel" => Len(pass.visited) = ci - 1
  /\ pc = "forward" => (Len(pass.visited) = ci /\ ci <= Len(SOURCE_CHANNELS))

\* C21 witness: the scheduler was stopped and started again while the first
\* loop was forwarding; the further loop has woken while that pass is in
\* progress
C21_SecondLoopWoke ==
  /\ pc = "forward" /\ mi <= Len(messages)
  /\ others.woke = 1
  /\ is_running

\* C22: while no run boundary is established, get_channel_messages gives an
\* empty result for every channel without reaching the transport, and a pass
\* run in that state forwards nothing, changes no processed record and no
\* watermark, and returns zero counts.
C22_NoFetchBeforeBoundary ==
  [][start_time = NoTime =>
       /\ processed_posts' = processed_posts
       /\ channel_settings' = channel_settings
       /\ fwdCount' = fwdCount
       /\ pc' # "forward"
       /\ last'.op = "get_channel_messages" => (~last'.fetched /\ last'.n = 0)
       /\ last'.op = "return" =>
            (last'.results = ZeroResults /\ last'.pass.visited = SOURCE_CHANNELS)]_vars

\* C22 witness: a pass without a boundary has returned over channels that hold
\* messages
C22_UnsetPassReturned ==
  /\ last.op = "return"
  /\ start_time = NoTime
  /\ \A c \in Channels : iter_messages(posts[c], Limit) # <<>>

\* C23 as stated: every message that a pass counted as forwarded has a
\* processed record with the published flag set.
C23_EveryCountedRecorded ==
  (last.op = "candidate" /\ last.ret) =>
    \E r \in processed_posts : SameKey(r, last.c, last.id) /\ r.is_published

\* C23 amended: a message counted as forwarded whose record write reached the
\* store has a processed record with the published flag set and the
\* annotation "forwarded", and no step of a pass removes a record or clears
\* its flag, so the record is there when the pass returns.
C23_CountedAndWrittenRecorded ==
  [][/\ (last'.op = "candidate" /\ last'.ret /\ last'.wrote) =>
          \E r \in processed_posts' :
             /\ SameKey(r, last'.c, last'.id)
             /\ r.is_published /\ r.summary = "forwarded"
     /\ pc \in {"channel", "forward"} =>
          \A r \in processed_posts : \E q \in processed_posts' :
             /\ SameKey(q, r.channel_username, r.message_id)
             /\ r.is_published => q.is_published]_vars

\* C23 witness: the second message a pass counted as forwarded has been recorded
C23_SecondForwardRecorded ==
  /\ last.op = "candidate" /\ last.ret /\ last.wrote
  /\ results.forwarded = 2
  /\ \E r \in processed_posts : SameKey(r, last.c, last.id) /\ r.is_published

\* C24: after the sweep, the increments that process_all_channels hands to
\* update_statistics are the totals it returns: processed = returned processed
\* (the candidates retrieved), published = returned forwarded, filtered = 0.
C24_CountersAreReturnedTotals ==
  (last.op = "return") =>
    last.update_statistics = <<last.results.processed, last.results.forwarded, 0>>

\* C25: the fixed delay is taken after every channel whatever its outcome:
\* when a pass has finished with a channel and another configured channel
\* follows, the 2-second delay was taken, also when the channel gave no
\* candidates, was rate-limited or failed.
C25_DelayAfterEveryChannel ==
  (/\ pc = "channel" /\ ci <= Len(SOURCE_CHANNELS)
   /\ last.op \in {"get_channel_messages", "channel_done"}) =>
    last.delay = 2

\* C26: whenever an error occurs during a pass of the daemon loop, a fixed
\* 60-second cool-down is taken before the next interval sleep begins.
C26_CoolDownAfterFailedPass ==
  (/\ mode = "daemon"
   /\ \/ last.op = "no_connection"
      \/ last.op = "return" /\ last.pass.failed # {}) =>
    last.cooldown = 60

\* the ids of the candidates a channel's turn has retained
CandidateIds == {messages[i].id : i \in 1..Len(messages)}

\* C27 as stated: a pass that retains at least one candidate for a channel
\* sets the channel's watermark to the highest candidate id.
C27_WatermarkIsMaxCandidate ==
  (last.op = "get_channel_messages" /\ last.n > 0) =>
    /\ channel_settings[last.c] # NoRow
    /\ channel_settings[last.c].last_message_id \in CandidateIds
    /\ \A x \in CandidateIds : x <= channel_settings[last.c].last_message_id

\* C27 amended: when a channel's turn retains candidates and the watermark
\* write reaches the store, the channel's watermark is the highest candidate
\* id; when the write fails or nothing is retained, the watermark is left as it
\* was; and a turn for one channel changes no other channel's watermark and no
\* other channel's processed records.
C27_WatermarkStep ==
  [][/\ last'.op = "get_channel_messages" =>
          /\ (last'.n > 0 /\ last'.wrote) =>
               /\ channel_settings'[last'.c] # NoRow
               /\ channel_settings'[last'.c].last_message_id
                    \in {messages'[i].id : i \in 1..Len(messages')}
               /\ \A i \in 1..Len(messages') :
                    messages'[i].id <= channel_settings'[last'.c].last_message_id
          /\ (last'.n = 0 \/ ~last'.wrote) => channel_settings' = channel_settings
          /\ \A d \in Channels \ {last'.c} : channel_settings'[d] = channel_settings[d]
          /\ processed_posts' = processed_posts
     /\ last'.op \in {"candidate", "channel_done"} =>
          /\ channel_settings' = channel_settings
          /\ \A r \in processed_posts \cup processed_posts' :
               r.channel_username # last'.c =>
                 (r \in processed_posts /\ r \in processed_posts')]_vars

\* C27 witness: a turn retained two candidates and wrote the watermark of a
\* channel that had one, while the other channel has its own watermark
C27_TwoCandidatesWritten ==
  /\ last.op = "get_channel_messages" /\ last.n = 2 /\ last.wrote
  /\ last.prev # NoRow
  /\ \A c \in Channels : channel_settings[c] # NoRow

\* C28: a retention purge whose DELETE reaches the store removes exactly the
\* processed records whose processed timestamp is older than the given age (30
\* days for the scheduler's maintenance) and reports how many it removed; every
\* purge leaves the younger records, every watermark row and every daily
\* counter as they were.
C28_PurgeExact ==
  [][last'.op \in {"cleanup_old_posts", "cleanup_database"} =>
       /\ last'.op = "cleanup_database" => last'.days = 30
       /\ last'.dbok =>
            \A r \in processed_posts :
               (r \in processed_posts') <=> (r.processed_date >= now - last'.days)
       /\ processed_posts' \subseteq processed_posts
       /\ last'.deleted_count = Cardinality(processed_posts) - Cardinality(processed_posts')
       /\ channel_settings' = channel_settings
       /\ statistics' = statistics]_vars

\* C28 witness: the scheduler's purge removed the record older than 30 days and
\* kept the one that is exactly 30 days old, with watermarks and counters present
C28_OldRemovedYoungKept ==
  /\ last.op = "cleanup_database" /\ last.deleted_count = 1
  /\ \E r \in processed_posts : r.processed_date = now - RetentionDays
  /\ \E c \in Channels : channel_settings[c] # NoRow
  /\ statistics # {}

\* C29: when the record write after a forward fails, the error does not reach
\* the pass (forward_message returns True, the forward is counted and the
\* forwarding loop goes on to its next candidate), the store is left as it
\* was, and a message that had no processed record still has none; and a
\* candidate without a record whose lookup works is always given a forward
\* attempt, so the message is attempted again when a later pass retrieves it.
C29_WriteFailureLeavesEligible ==
  /\ [][(last'.op = "candidate" /\ last'.sent /\ ~last'.wrote) =>
          /\ processed_posts' = processed_posts
          /\ channel_settings' = channel_settings
          /\ last'.ret
          /\ results'.forwarded = results.forwarded + 1
          /\ pc' = "forward" /\ mi' = mi + 1
          /\ ~last'.had =>
               ~is_post_processed(processed_posts', last'.c, last'.id, TRUE)]_vars
  /\ [](last.op = "candidate" /\ ~last.had => last.attempted)

\* C29 witness: a message forwarded once with a failed record write is
\* forwarded again by a later pass, and that write fails too
C29_ReattemptedAfterFailedWrite ==
  /\ last.op = "candidate" /\ last.sent /\ ~last.wrote /\ ~last.had
  /\ fwdCount[<<last.c, last.id>>] = 2

\* C30: registering a channel that is already present changes nothing: its
\* watermark, active flag and registration timestamp stay; registering a
\* channel that is absent, with the insert reaching the store, creates it with
\* watermark 0; a registration touches no other channel and no processed
\* record; and get_last_message_id answers 0 for a channel without a row and
\* the stored watermark for a channel with one.
C30_RegisterIdempotent ==
  [][/\ last'.op = "add_channel" =>
          /\ channel_settings[last'.c] # NoRow => channel_settings' = channel_settings
          /\ (channel_settings[last'.c] = NoRow /\ last'.dbok) =>
               /\ channel_settings'[last'.c] # NoRow
               /\ channel_settings'[last'.c].last_message_id = 0
               /\ channel_settings'[last'.c].is_active
          /\ \A d \in Channels \ {last'.c} : channel_settings'[d] = channel_settings[d]
          /\ processed_posts' = processed_posts
     /\ last'.op = "get_last_message_id" =>
          /\ channel_settings[last'.c] = NoRow => last'.ret = 0
          /\ (channel_settings[last'.c] # NoRow /\ last'.dbok) =>
               last'.ret = channel_settings[last'.c].last_message_id]_vars

\* C30 witness: a channel that was deactivated with watermark 1 has been
\* registered again and its row is as it was
C30_RegisteredAgain ==
  /\ last.op = "add_channel" /\ last.dbok
  /\ last.prev # NoRow
  /\ channel_settings[last.c] = last.prev
  /\ last.prev.last_message_id = 1 /\ ~last.prev.is_active

\* no step of the daemon process opens a connection that is down
C31_NeverReopened == [][client = "disconnected" => client' = "disconnected"]_vars

C32_WaitsSignalled ==
  (last.op = "candidate" /\ last.kind = "flood") => last.slept = last.seconds

\* no forward is attempted for a channel after a rate limit in the same pass
C32_SkipsRestOfChannel ==
  (last.op = "candidate" /\ last.attempted) => ~last.after_flood

\* the candidate that met the rate limit gets no record
C32_LeftUnrecorded ==
  (last.op = "candidate" /\ last.kind = "flood" /\ ~last.had) =>
    ~\E r \in processed_posts : SameKey(r, last.c, last.id)

\* C32: when the transport signals a rate limit while a candidate is being
\* forwarded, the processor waits the signalled seconds, and it makes no
\* further forward attempt for that channel in the same pass; the candidates
\* left unforwarded stay without a record.
C32_ForwardRateLimit ==
  C32_WaitsSignalled /\ C32_SkipsRestOfChannel /\ C32_LeftUnrecorded

\* C33: advancing the watermark of a channel that has a row changes its
\* last-seen id alone: the active flag and the registration timestamp are as
\* before, so a deactivated channel stays deactivated.
C33_AdvanceKeepsFlags ==
  (last.op = "update_last_message_id" /\ last.prev # NoRow) =>
    /\ channel_settings[last.c].is_active = last.prev.is_active
    /\ channel_settings[last.c].added_date = last.prev.added_date

\* C34: every processed record belongs to a (channel, message id) whose
\* forward to the target completed before the record was written: a record
\* appears or changes only in the step in which its message was forwarded, and
\* every record in the store is of a message forwarded at least once.
C34_NoRecordWithoutForward ==
  /\ [](\A r \in processed_posts :
          /\ fwdCount[<<r.channel_username, r.message_id>>] >= 1
          /\ r.is_published)
  /\ [][\A r \in processed_posts' \ processed_posts :
          /\ last'.op = "candidate" /\ last'.sent /\ last'.ret
          /\ SameKey(r, last'.c, last'.id)
          /\ fwdCount'[<<r.channel_username, r.message_id>>] >= 1]_vars

\* C34 witness: two messages have each been forwarded once and recorded, the
\* second record written in the step that forwarded its message
C34_RecordsFollowForwards ==
  /\ last.op = "candidate" /\ last.wrote /\ ~last.had
  /\ Cardinality(processed_posts) = 2
  /\ \A k \in Keys : fwdCount[k] <= 1

\* a record of the same message id under another channel
SameIdElsewhere(rows, c, m) ==
  \E r \in rows : r.message_id = m /\ r.channel_username # c

\* C35: a processed record for (channel A, id n) never makes a candidate
\* (channel B, id n), B different from A, be skipped: a candidate that has no
\* record of its own is given its forward attempt also when the same id is
\* recorded under another channel, and recording it leaves that other record
\* in place.
C35_KeyedByPair ==
  /\ []((/\ last.op = "candidate" /\ ~last.had
         /\ SameIdElsewhere(processed_posts, last.c, last.id)) =>
          (~last.found /\ last.attempted))
  /\ [][last'.op = "candidate" =>
          \A r \in processed_posts : r.channel_username # last'.c => r \in processed_posts']_vars

\* C35 witness: message 1 of the second channel has been forwarded and recorded
\* while message 1 of the first channel has its record
C35_SameIdBothChannels ==
  /\ last.op = "candidate" /\ last.wrote /\ ~last.had
  /\ last.c = SOURCE_CHANNELS[2] /\ last.id = 1
  /\ \E r \in processed_posts : SameKey(r, SOURCE_CHANNELS[1], 1)
  /\ \E r \in processed_posts : SameKey(r, SOURCE_CHANNELS[2], 1)

\* C36: once stop() has been called on a Running scheduler, the loop exits
\* and start() returns after at most the sleep or the pass in progress: the
\* loop is left no later than the end of the interval in which stop() came,
\* and no collection is begun once the flag is cleared.
C36_LoopTerminates ==
  /\ \A t \in 0..(MaxTime - 1) :
        (mode = "daemon" /\ last.op = "stop" /\ last.was /\ now = t)
           ~> (pc = "exited" /\ now <= t + 1)
  /\ [][(mode = "daemon" /\ ~is_running /\ pc \in {"idle", "woke"}) =>
          last'.op \notin {"pass_start", "no_connection"}]_vars

\* C36 witness: stop() came during a pass; the pass has run to its end and the
\* loop has been left
C36_ExitedAfterPass ==
  /\ mode = "daemon" /\ ~is_running
  /\ pc = "exited" /\ last.op = "return"

====
